---------------------------- MODULE Spec2Model ----------------------------
(***************************************************************************)
(* Model of the SPC analysis engine, modules/quality/spc_analysis.py.      *)
(*                                                                         *)
(* SPCAnalyzer is called with a measurement sequence and parameters and    *)
(* returns a result.  The arguments of the call are drawn from bounded     *)
(* sets and held in `call`; one action per public method computes what the *)
(* method returns (or the exception it raises) into `result`.              *)
(*                                                                         *)
(* Numbers.  The code computes in IEEE doubles.  The model computes the    *)
(* same expressions exactly: a number is a record [a, b, r, d] that stands *)
(* for (a + b*sqrt(r)) / d with d > 0, enough for the means, quotients and *)
(* the single square root each method takes.  d = 0 encodes the special    *)
(* doubles: a = 0 is NaN, a = 1 is +inf, a = -1 is -inf.  Rounding of the  *)
(* last bit of a double is not represented.                                *)
(***************************************************************************)
EXTENDS Integers, Sequences, FiniteSets, TLC

VARIABLES
    sigma_multiplier,   \* SPCAnalyzer.sigma_multiplier
    pc,                 \* "called": the call is pending; "returned": it has returned
    call,               \* the method called and its arguments
    result,             \* what the call returned
    frames,             \* the frames of the calls that run at the same time
    alerts,             \* the rows of the alerts table
    sqlite_sequence,    \* the largest id the alerts table has given out
    clock,              \* the current day
    reply               \* what the last AlertSystem call or route returned

analyzerVars == <<sigma_multiplier, pc, call, result>>
alertVars == <<alerts, sqlite_sequence, clock, reply>>
vars == <<sigma_multiplier, pc, call, result, frames, alerts, sqlite_sequence,
          clock, reply>>

(***************************************************************************)
(* Bounds of the model.                                                    *)
(***************************************************************************)
MaxLen == 10         \* longest measurement sequence
MaxSubgroup == 2     \* largest subgroup_size
MaxCapLen == 4       \* longest sequence analysed with specification limits
MaxCusumLen == 5     \* longest CUSUM input
MaxSamples == 3      \* longest p-chart input
MaxSampleSize == 2   \* largest p-chart sample size / defect count

\* an Optional: None, or Some(v) holding v
None == <<>>
Some(v) == <<v>>
NoResult == [status |-> "none"]
\* the measurements: two levels, so that runs, ties and outliers all occur
Values == {0, 1}

RECURSIVE SeqsUpTo(_, _)
SeqsUpTo(S, n) ==
    IF n = 0 THEN {<<>>}
    ELSE LET shorter == SeqsUpTo(S, n - 1)
         IN  shorter \cup {Append(s, v) : s \in {t \in shorter : Len(t) = n - 1}, v \in S}

(***************************************************************************)
(* Exact arithmetic on (a + b*sqrt(r)) / d.                                *)
(***************************************************************************)
AbsInt(i) == IF i < 0 THEN -i ELSE i

RECURSIVE Gcd(_, _)
Gcd(x, y) == IF y = 0 THEN x ELSE Gcd(y, x % y)

Lcm(x, y) == (x \div Gcd(x, y)) * y

SignInt(i) == IF i > 0 THEN 1 ELSE IF i < 0 THEN -1 ELSE 0

\* n / d with the common factor g taken out and the sign in the numerator
Reduced(n, d, g) ==
    [a |-> (SignInt(d) * n) \div g, b |-> 0, r |-> 1, d |-> AbsInt(d) \div g]

Q(n, d) ==
    IF d = 0 THEN [a |-> SignInt(n), b |-> 0, r |-> 1, d |-> 0]
    ELSE Reduced(n, d, Gcd(AbsInt(n), AbsInt(d)))

Num(i) == [a |-> i, b |-> 0, r |-> 1, d |-> 1]
NaN == [a |-> 0, b |-> 0, r |-> 1, d |-> 0]
Inf == [a |-> 1, b |-> 0, r |-> 1, d |-> 0]
NegInf == [a |-> -1, b |-> 0, r |-> 1, d |-> 0]
Zero == [a |-> 0, b |-> 0, r |-> 1, d |-> 1]

IsNaN(x) == x.d = 0 /\ x.a = 0
IsInf(x) == x.d = 0 /\ x.a # 0
IsFinite(x) == x.d # 0

\* the sign of a + b*sqrt(r), decided without taking the root
SignCompare(a1, b1, r, sa, sb) ==
    IF sb = 0 THEN sa
    ELSE IF sa = 0 \/ sa = sb THEN sb
    ELSE IF a1 * a1 > b1 * b1 * r THEN sa
    ELSE IF a1 * a1 < b1 * b1 * r THEN sb
    ELSE 0

SignReduced(a1, b1, r) ==
    SignCompare(a1, b1, r, SignInt(a1), IF r > 0 THEN SignInt(b1) ELSE 0)

SignCoprime(a, b, r, g) ==
    IF g = 0 THEN 0 ELSE SignReduced(a \div g, b \div g, r)

SignSurd(a, b, r) == SignCoprime(a, b, r, Gcd(AbsInt(a), AbsInt(b)))

Sign(x) == IF x.d = 0 THEN x.a ELSE SignSurd(x.a, x.b, x.r)

Neg(x) == [x EXCEPT !.a = -x.a, !.b = -x.b]

\* one record per rational: the radicand of a number without a root is 1
Norm(x) == IF x.b = 0 THEN [x EXCEPT !.r = 1] ELSE x

\* x + y over the common denominator d
AddOver(x, y, d) ==
    Norm([a |-> x.a * (d \div x.d) + y.a * (d \div y.d),
          b |-> x.b * (d \div x.d) + y.b * (d \div y.d),
          r |-> IF x.b # 0 THEN x.r ELSE y.r,
          d |-> d])

Add(x, y) ==
    IF IsNaN(x) \/ IsNaN(y) THEN NaN
    ELSE IF IsInf(x) THEN (IF IsInf(y) /\ y.a # x.a THEN NaN ELSE x)
    ELSE IF IsInf(y) THEN y
    ELSE AddOver(x, y, Lcm(x.d, y.d))

Sub(x, y) == Add(x, Neg(y))

\* x * y and x / y, y rational (y.b = 0)
\* the infinity of sign s, NaN for s = 0 (0 * inf, 0 / 0)
InfOfSign(s) == IF s > 0 THEN Inf ELSE IF s < 0 THEN NegInf ELSE NaN

\* (a + b*sqrt(r)) / d with the common factor g taken out
Lowest(a, b, r, d, g) ==
    Norm([a |-> a \div g, b |-> b \div g, r |-> r, d |-> d \div g])

Mul(x, y) ==
    IF IsNaN(x) \/ IsNaN(y) THEN NaN
    ELSE IF x.d = 0 \/ y.d = 0 THEN InfOfSign(Sign(x) * Sign(y))
    ELSE Lowest(x.a * y.a, x.b * y.a, x.r, x.d * y.d,
                Gcd(Gcd(AbsInt(x.a * y.a), AbsInt(x.b * y.a)), x.d * y.d))

Div(x, y) ==
    IF IsNaN(x) \/ IsNaN(y) THEN NaN
    ELSE IF IsInf(y) THEN (IF IsInf(x) THEN NaN ELSE Zero)
    ELSE IF y.a = 0 THEN InfOfSign(Sign(x))
    ELSE IF IsInf(x) THEN (IF y.a > 0 THEN x ELSE Neg(x))
    ELSE Mul(x, Q(y.d, y.a))

\* np.sqrt of a rational: sqrt(n/d) = sqrt(n*d) / d; NaN below zero
Sqrt(x) ==
    IF IsNaN(x) \/ Sign(x) < 0 THEN NaN
    ELSE IF IsInf(x) THEN Inf
    ELSE IF x.a = 0 THEN Zero
    ELSE [a |-> 0, b |-> 1, r |-> x.a * x.d, d |-> x.d]

\* x / s for a rational x and a root s = b*sqrt(r)/d, b > 0:
\* x * d * sqrt(r) / (b * r)
DivRoot(x, s) ==
    IF IsNaN(x) \/ IsNaN(s) THEN NaN
    ELSE IF IsInf(s) THEN (IF IsInf(x) THEN NaN ELSE Zero)
    ELSE IF s.r = 0 \/ s.b = 0 THEN InfOfSign(Sign(x))
    ELSE IF IsInf(x) THEN x
    ELSE Lowest(0, x.a * s.d, s.r, x.d * s.b * s.r,
                Gcd(AbsInt(x.a * s.d), x.d * s.b * s.r))

\* the comparisons of doubles: every comparison with NaN is false
IsPositive(x) == ~IsNaN(x) /\ Sign(x) > 0
IsZero(x) == IsFinite(x) /\ Sign(x) = 0

Gt(x, y) == ~IsNaN(x) /\ ~IsNaN(y) /\ IsPositive(Sub(x, y))
Lt(x, y) == Gt(y, x)
Eq(x, y) == /\ ~IsNaN(x) /\ ~IsNaN(y)
            /\ \/ (x.d = 0 /\ y.d = 0 /\ x.a = y.a)
               \/ IsZero(Sub(x, y))
Le(x, y) == Lt(x, y) \/ Eq(x, y)

\* abs(x)
Abs(x) == IF ~IsNaN(x) /\ Sign(x) < 0 THEN Neg(x) ELSE x

\* the builtin max(0, x): x when x > 0, else the first argument
Max0(x) == IF Gt(x, Zero) THEN x ELSE Zero

\* the builtin min(x, y): y when y < x, else the first argument
Min2(x, y) == IF Lt(y, x) THEN y ELSE x

RECURSIVE SumInt(_)
SumInt(s) == IF s = <<>> THEN 0 ELSE Head(s) + SumInt(Tail(s))

RECURSIVE SumNum(_)
SumNum(s) == IF s = <<>> THEN Zero ELSE Add(Head(s), SumNum(Tail(s)))

RECURSIVE MaxInt(_)
MaxInt(s) == IF Len(s) = 1 THEN s[1]
             ELSE LET m == MaxInt(Tail(s)) IN IF s[1] > m THEN s[1] ELSE m

RECURSIVE MinInt(_)
MinInt(s) == IF Len(s) = 1 THEN s[1]
             ELSE LET m == MinInt(Tail(s)) IN IF s[1] < m THEN s[1] ELSE m

\* np.mean of measurements, and of a list of doubles: sum / count, NaN when empty
MeanInt(s) == Div(Num(SumInt(s)), Num(Len(s)))
MeanNum(s) == Div(SumNum(s), Num(Len(s)))

\* Series.std(): the sample standard deviation (ddof = 1), NaN below two values
\* sum((x - mean)^2) / (N - 1) = (N*sum(x^2) - sum(x)^2) / (N * (N - 1))
Std(s) ==
    LET N == Len(s)
        sq == [i \in 1..N |-> s[i] * s[i]]
    IN  IF N < 2 THEN NaN
        ELSE Sqrt(Q(N * SumInt(sq) - SumInt(s) * SumInt(s), N * (N - 1)))

\* Python's a // b for a >= 0 and b # 0
FloorDiv(a, b) == IF b > 0 THEN a \div b ELSE -((a + (-b) - 1) \div (-b))

(***************************************************************************)
(* The lookup tables of the control-chart constants, in thousandths.       *)
(***************************************************************************)
d2_values ==
    [n \in 2..10 |-> <<1128, 1693, 2059, 2326, 2534, 2704, 2847, 2970, 3078>>[n - 1]]
d3_values ==
    [n \in 2..10 |-> <<0, 0, 0, 0, 0, 76, 136, 184, 223>>[n - 1]]
\* D4 with the decimal point of the first entry misplaced
d4_values_Slip ==
    [n \in 2..10 |-> <<327, 2574, 2282, 2114, 2004, 1924, 1864, 1816, 1777>>[n - 1]]
d4_values ==
    [n \in 2..10 |-> <<3267, 2574, 2282, 2114, 2004, 1924, 1864, 1816, 1777>>[n - 1]]

Lookup(table, n, default) ==
    Q(IF n \in DOMAIN table THEN table[n] ELSE default, 1000)

(***************************************************************************)
(* ViolationType: the rules of the Western Electric engine.                *)
(***************************************************************************)
BEYOND_3SIGMA == "BEYOND_3SIGMA"
TWO_OF_THREE_BEYOND_2SIGMA == "TWO_OF_THREE_BEYOND_2SIGMA"
FOUR_OF_FIVE_BEYOND_1SIGMA == "FOUR_OF_FIVE_BEYOND_1SIGMA"
EIGHT_CONSECUTIVE_SAME_SIDE == "EIGHT_CONSECUTIVE_SAME_SIDE"

\* the indices 0 .. n-1 in order, as range(n) yields them
Range(n) == [i \in 1..(IF n > 0 THEN n ELSE 0) |-> i - 1]

\* [f(i) for i in range(n) if test(i)]
Comprehension(n, test(_), f(_)) ==
    LET kept == SelectSeq(Range(n), test)
    IN  [j \in 1..Len(kept) |-> f(kept[j])]

\* sum(1 for p in data[i:i+w] if test(p)), data indexed from 0
CountWindow(data, i, w, test(_)) ==
    Cardinality({j \in (i + 1)..(i + w) : test(data[j])})

\* Rule 1 that looks at the upper limit only
Rule1_UpperOnly(data, ucl, lcl) ==
    Comprehension(Len(data),
                  LAMBDA i : Gt(data[i + 1], ucl),
                  LAMBDA i : <<i, BEYOND_3SIGMA>>)

\* Rule 1 that also flags a point on a limit
Rule1_NonStrict(data, ucl, lcl) ==
    Comprehension(Len(data),
                  LAMBDA i : \/ Gt(data[i + 1], ucl) \/ Eq(data[i + 1], ucl)
                             \/ Lt(data[i + 1], lcl) \/ Eq(data[i + 1], lcl),
                  LAMBDA i : <<i, BEYOND_3SIGMA>>)

Rule1(data, ucl, lcl) ==
    Comprehension(Len(data),
                  LAMBDA i : Gt(data[i + 1], ucl) \/ Lt(data[i + 1], lcl),
                  LAMBDA i : <<i, BEYOND_3SIGMA>>)

\* Rule 2 flagging the point after the window
Rule2_PastWindow(data, center_line, sigma) ==
    Comprehension(Len(data) - 2,
                  LAMBDA i : CountWindow(data, i, 3,
                                 LAMBDA p : Gt(Abs(Sub(p, center_line)),
                                               Mul(sigma, Num(2)))) >= 2,
                  LAMBDA i : <<i + 3, TWO_OF_THREE_BEYOND_2SIGMA>>)

\* Rule 2 that wants its two points on the same side of the center line
Rule2_SameSide(data, center_line, sigma) ==
    Comprehension(Len(data) - 2,
                  LAMBDA i : \/ CountWindow(data, i, 3,
                                    LAMBDA p : Gt(Sub(p, center_line),
                                                  Mul(sigma, Num(2)))) >= 2
                             \/ CountWindow(data, i, 3,
                                    LAMBDA p : Gt(Sub(center_line, p),
                                                  Mul(sigma, Num(2)))) >= 2,
                  LAMBDA i : <<i + 2, TWO_OF_THREE_BEYOND_2SIGMA>>)

Rule2(data, center_line, sigma) ==
    Comprehension(Len(data) - 2,
                  LAMBDA i : CountWindow(data, i, 3,
                                 LAMBDA p : Gt(Abs(Sub(p, center_line)),
                                               Mul(sigma, Num(2)))) >= 2,
                  LAMBDA i : <<i + 2, TWO_OF_THREE_BEYOND_2SIGMA>>)

\* Rule 3 that wants more than four of the five points
Rule3_AllFive(data, center_line, sigma) ==
    Comprehension(Len(data) - 4,
                  LAMBDA i : CountWindow(data, i, 5,
                                 LAMBDA p : Gt(Abs(Sub(p, center_line)), sigma)) > 4,
                  LAMBDA i : <<i + 4, FOUR_OF_FIVE_BEYOND_1SIGMA>>)

Rule3(data, center_line, sigma) ==
    Comprehension(Len(data) - 4,
                  LAMBDA i : CountWindow(data, i, 5,
                                 LAMBDA p : Gt(Abs(Sub(p, center_line)), sigma)) >= 4,
                  LAMBDA i : <<i + 4, FOUR_OF_FIVE_BEYOND_1SIGMA>>)

\* Rule 4 that counts a point on the center line as part of a run
Rule4_NonStrict(data, center_line) ==
    Comprehension(Len(data) - 7,
                  LAMBDA i : \/ \A j \in (i + 1)..(i + 8) :
                                    Gt(data[j], center_line) \/ Eq(data[j], center_line)
                             \/ \A j \in (i + 1)..(i + 8) :
                                    Lt(data[j], center_line) \/ Eq(data[j], center_line),
                  LAMBDA i : <<i + 7, EIGHT_CONSECUTIVE_SAME_SIDE>>)

Rule4(data, center_line) ==
    Comprehension(Len(data) - 7,
                  LAMBDA i : \/ \A j \in (i + 1)..(i + 8) : Gt(data[j], center_line)
                             \/ \A j \in (i + 1)..(i + 8) : Lt(data[j], center_line),
                  LAMBDA i : <<i + 7, EIGHT_CONSECUTIVE_SAME_SIDE>>)

\* the first entry of each index only
RECURSIVE FirstPerIndex(_)
FirstPerIndex(violations) ==
    IF violations = <<>> THEN <<>>
    ELSE LET n == Len(violations)
             front == FirstPerIndex(SubSeq(violations, 1, n - 1))
         IN  IF \E j \in 1..Len(front) : front[j][1] = violations[n][1]
             THEN front ELSE Append(front, violations[n])

\* the engine reporting each index once, under the first rule that fired
ApplyWesternElectricRules_OncePerIndex(data, center_line, ucl, lcl) ==
    LET sigma == Div(Sub(ucl, center_line), Num(3))
    IN  FirstPerIndex(Rule1(data, ucl, lcl)
                      \o Rule2(data, center_line, sigma)
                      \o Rule3(data, center_line, sigma)
                      \o Rule4(data, center_line))

\* the engine running its rules from Rule 4 down to Rule 1
ApplyWesternElectricRules_Rule4First(data, center_line, ucl, lcl) ==
    LET sigma == Div(Sub(ucl, center_line), Num(3))
    IN  Rule4(data, center_line)
        \o Rule3(data, center_line, sigma)
        \o Rule2(data, center_line, sigma)
        \o Rule1(data, ucl, lcl)

\* SPCAnalyzer._apply_western_electric_rules
ApplyWesternElectricRules(data, center_line, ucl, lcl) ==
    LET sigma == Div(Sub(ucl, center_line), Num(3))
    IN  Rule1(data, ucl, lcl)
        \o Rule2(data, center_line, sigma)
        \o Rule3(data, center_line, sigma)
        \o Rule4(data, center_line)

\* capability indices whose Cp and Pp divide by 3*sigma
CalculateCapability_ThreeSigma(data, usl, lsl) ==
    LET mean == MeanInt(data)
        three == Mul(Std(data), Num(3))
        cpk == Min2(DivRoot(Sub(Num(usl), mean), three),
                    DivRoot(Sub(mean, Num(lsl)), three))
    IN  [Cp |-> DivRoot(Num(usl - lsl), three), Cpk |-> cpk,
         Pp |-> DivRoot(Num(usl - lsl), three), Ppk |-> cpk]

\* capability indices computed without the last measurement
CalculateCapability_LastDropped(data, usl, lsl) ==
    LET mean == MeanInt(SubSeq(data, 1, Len(data) - 1))
        sigma == Std(SubSeq(data, 1, Len(data) - 1))
        six == Mul(sigma, Num(6))
        three == Mul(sigma, Num(3))
        cpk == Min2(DivRoot(Sub(Num(usl), mean), three),
                    DivRoot(Sub(mean, Num(lsl)), three))
    IN  [Cp |-> DivRoot(Num(usl - lsl), six), Cpk |-> cpk,
         Pp |-> DivRoot(Num(usl - lsl), six), Ppk |-> cpk]

\* capability indices whose Pp and Ppk use the population standard deviation
CalculateCapability_OverallSigma(data, usl, lsl) ==
    LET mean == MeanInt(data)
        sigma == Std(data)
        overall == IF Len(data) < 1 THEN NaN
                   ELSE Sqrt(Q(Len(data) * SumInt([i \in 1..Len(data) |-> data[i] * data[i]])
                                 - SumInt(data) * SumInt(data), Len(data) * Len(data)))
    IN  [Cp |-> DivRoot(Num(usl - lsl), Mul(sigma, Num(6))),
         Cpk |-> Min2(DivRoot(Sub(Num(usl), mean), Mul(sigma, Num(3))),
                      DivRoot(Sub(mean, Num(lsl)), Mul(sigma, Num(3)))),
         Pp |-> DivRoot(Num(usl - lsl), Mul(overall, Num(6))),
         Ppk |-> Min2(DivRoot(Sub(Num(usl), mean), Mul(overall, Num(3))),
                      DivRoot(Sub(mean, Num(lsl)), Mul(overall, Num(3))))]

\* SPCAnalyzer._calculate_capability
CalculateCapability(data, usl, lsl) ==
    LET mean == MeanInt(data)
        sigma == Std(data)
        six == Mul(sigma, Num(6))
        three == Mul(sigma, Num(3))
        cp == DivRoot(Num(usl - lsl), six)
        cpk == Min2(DivRoot(Sub(Num(usl), mean), three),
                    DivRoot(Sub(mean, Num(lsl)), three))
        pp == DivRoot(Num(usl - lsl), six)
        ppk == Min2(DivRoot(Sub(Num(usl), mean), three),
                    DivRoot(Sub(mean, Num(lsl)), three))
    IN  [Cp |-> cp, Cpk |-> cpk, Pp |-> pp, Ppk |-> ppk]

\* overlapping subgroups data[i : i+n]
Subgroups_Sliding(data, subgroup_size) ==
    LET n_subgroups == FloorDiv(Len(data), subgroup_size)
    IN  [i \in 1..(IF n_subgroups > 0 THEN n_subgroups ELSE 0) |->
            SubSeq(data, i, i + subgroup_size - 1)]

\* subgroups that keep the trailing measurements as a last, shorter subgroup
Subgroups_WithRemainder(data, subgroup_size) ==
    LET n_subgroups == IF subgroup_size > 0
                       THEN FloorDiv(Len(data) + subgroup_size - 1, subgroup_size)
                       ELSE FloorDiv(Len(data), subgroup_size)
    IN  [i \in 1..(IF n_subgroups > 0 THEN n_subgroups ELSE 0) |->
            SubSeq(data, (i - 1) * subgroup_size + 1,
                   IF i * subgroup_size < Len(data) THEN i * subgroup_size ELSE Len(data))]

\* the subgroups data[i*n : (i+1)*n] for i in range(n_subgroups)
Subgroups(data, subgroup_size) ==
    LET n_subgroups == FloorDiv(Len(data), subgroup_size)
    IN  [i \in 1..(IF n_subgroups > 0 THEN n_subgroups ELSE 0) |->
            SubSeq(data, (i - 1) * subgroup_size + 1, i * subgroup_size)]

SubgroupMeans(data, subgroup_size) ==
    LET subgroups == Subgroups(data, subgroup_size)
    IN  [i \in 1..Len(subgroups) |-> MeanInt(subgroups[i])]

SubgroupRanges(data, subgroup_size) ==
    LET subgroups == Subgroups(data, subgroup_size)
    IN  [i \in 1..Len(subgroups) |-> Num(MaxInt(subgroups[i]) - MinInt(subgroups[i]))]

\* the out_of_control_points of analyze_xbar: [idx for idx, _ in violations]
IndicesOf(violations) == [j \in 1..Len(violations) |-> violations[j][1]]

\* the control limits of analyze_xbar (subgroup_size # 0)
XbarLimits(data, subgroup_size) ==
    LET subgroup_means == SubgroupMeans(data, subgroup_size)
        grand_mean == MeanNum(subgroup_means)
        ranges == SubgroupRanges(data, subgroup_size)
        avg_range == MeanNum(ranges)
        d2 == Lookup(d2_values, subgroup_size, 2326)
        sigma_estimate == Div(avg_range, d2)
        root == IF subgroup_size < 0 THEN NaN ELSE Sqrt(Num(subgroup_size))
    IN  [center_line |-> grand_mean,
         ucl |-> Add(grand_mean, Mul(DivRoot(sigma_estimate, root), Num(3))),
         lcl |-> Sub(grand_mean, Mul(DivRoot(sigma_estimate, root), Num(3)))]

\* a specification limit that counts as given only when it is not zero
Supplied_Truthy(limit) == limit # None /\ limit[1] # 0

\* `usl is not None`, `lsl is not None`
Supplied(limit) == limit # None

\* SPCAnalyzer.analyze_xbar
analyze_xbar(data, subgroup_size, usl, lsl) ==
    IF subgroup_size = 0 THEN [status |-> "ZeroDivisionError"]
    ELSE
    LET limits == XbarLimits(data, subgroup_size)
        violations == ApplyWesternElectricRules(SubgroupMeans(data, subgroup_size),
                          limits.center_line, limits.ucl, limits.lcl)
    IN  [status |-> "ok",
         chart_type |-> "X-bar",
         center_line |-> limits.center_line,
         ucl |-> limits.ucl,
         lcl |-> limits.lcl,
         usl |-> usl,
         lsl |-> lsl,
         out_of_control_points |-> IndicesOf(violations),
         violations |-> violations,
         process_capability |->
             IF Supplied(usl) /\ Supplied(lsl)
             THEN Some(CalculateCapability(data, usl[1], lsl[1])) ELSE None]

\* an R chart that runs the rule engine over the ranges
analyze_r_chart_WithRules(data, subgroup_size) ==
    IF subgroup_size = 0 THEN [status |-> "ZeroDivisionError"]
    ELSE
    LET ranges == SubgroupRanges(data, subgroup_size)
        avg_range == MeanNum(ranges)
        d3 == Lookup(d3_values, subgroup_size, 0)
        d4 == Lookup(d4_values, subgroup_size, 2114)
        ucl == Mul(avg_range, d4)
        lcl == Mul(avg_range, d3)
    IN  [status |-> "ok",
         chart_type |-> "R",
         center_line |-> avg_range,
         ucl |-> ucl,
         lcl |-> lcl,
         usl |-> None,
         lsl |-> None,
         out_of_control_points |->
             Comprehension(Len(ranges),
                           LAMBDA i : Gt(ranges[i + 1], ucl) \/ Lt(ranges[i + 1], lcl),
                           LAMBDA i : i),
         violations |-> ApplyWesternElectricRules(ranges, avg_range, ucl, lcl),
         process_capability |-> None]

\* SPCAnalyzer.analyze_r_chart
analyze_r_chart(data, subgroup_size) ==
    IF subgroup_size = 0 THEN [status |-> "ZeroDivisionError"]
    ELSE
    LET ranges == SubgroupRanges(data, subgroup_size)
        avg_range == MeanNum(ranges)
        d3 == Lookup(d3_values, subgroup_size, 0)
        d4 == Lookup(d4_values, subgroup_size, 2114)
        ucl == Mul(avg_range, d4)
        lcl == Mul(avg_range, d3)
    IN  [status |-> "ok",
         chart_type |-> "R",
         center_line |-> avg_range,
         ucl |-> ucl,
         lcl |-> lcl,
         usl |-> None,
         lsl |-> None,
         out_of_control_points |->
             Comprehension(Len(ranges),
                           LAMBDA i : Gt(ranges[i + 1], ucl) \/ Lt(ranges[i + 1], lcl),
                           LAMBDA i : i),
         violations |-> <<>>,
         process_capability |-> None]

\* defects / sample_sizes: the Series are aligned on their index, a position
\* that one of them lacks is NaN
Proportions(defects, sample_sizes) ==
    LET n == IF Len(defects) > Len(sample_sizes) THEN Len(defects) ELSE Len(sample_sizes)
    IN  [i \in 1..n |->
            IF i <= Len(defects) /\ i <= Len(sample_sizes)
            THEN Div(Num(defects[i]), Num(sample_sizes[i])) ELSE NaN]

\* the mean of the per-sample proportions
PBar_MeanOfProportions(defects, sample_sizes) ==
    MeanNum(Proportions(defects, sample_sizes))

\* p_bar = defects.sum() / sample_sizes.sum()
PBar(defects, sample_sizes) ==
    Div(Num(SumInt(defects)), Num(SumInt(sample_sizes)))

\* a proportion on a limit counted as outside
ProportionOutside_NonStrict(p, ucl, lcl) ==
    Gt(p, ucl) \/ Eq(p, ucl) \/ Lt(p, lcl) \/ Eq(p, lcl)

\* p > ucl or p < lcl
ProportionOutside(p, ucl, lcl) == Gt(p, ucl) \/ Lt(p, lcl)

\* SPCAnalyzer.analyze_p_chart
analyze_p_chart(defects, sample_sizes) ==
    LET proportions == Proportions(defects, sample_sizes)
        p_bar == PBar(defects, sample_sizes)
        n_bar == MeanInt(sample_sizes)
        spread == Mul(Sqrt(Div(Mul(p_bar, Sub(Num(1), p_bar)), n_bar)), Num(3))
        ucl == Add(p_bar, spread)
        lcl == Max0(Sub(p_bar, spread))
    IN  [status |-> "ok",
         chart_type |-> "p",
         center_line |-> p_bar,
         ucl |-> ucl,
         lcl |-> lcl,
         usl |-> None,
         lsl |-> None,
         out_of_control_points |->
             Comprehension(Len(proportions),
                           LAMBDA i : ProportionOutside(proportions[i + 1], ucl, lcl),
                           LAMBDA i : i),
         violations |-> <<>>,
         process_capability |-> None]

\* running sums that are not held at 0 from below
RECURSIVE CusumSums_NoFloor(_, _, _, _)
CusumSums_NoFloor(data, n, target, k) ==
    IF n = 0 THEN [c_plus |-> <<Zero>>, c_minus |-> <<Zero>>]
    ELSE LET prev == CusumSums_NoFloor(data, n - 1, target, k)
             dev == Sub(Num(data[n]), target)
         IN  [c_plus |-> Append(prev.c_plus, Sub(Add(prev.c_plus[n], dev), k)),
              c_minus |-> Append(prev.c_minus, Sub(Sub(prev.c_minus[n], dev), k))]

\* the running sums of analyze_cusum after the first n values, c_plus and
\* c_minus with their leading 0
RECURSIVE CusumSums(_, _, _, _)
CusumSums(data, n, target, k) ==
    IF n = 0 THEN [c_plus |-> <<Zero>>, c_minus |-> <<Zero>>]
    ELSE LET prev == CusumSums(data, n - 1, target, k)
             dev == Sub(Num(data[n]), target)
         IN  [c_plus |-> Append(prev.c_plus,
                                Max0(Sub(Add(prev.c_plus[n], dev), k))),
              c_minus |-> Append(prev.c_minus,
                                 Max0(Sub(Sub(prev.c_minus[n], dev), k)))]

\* SPCAnalyzer.analyze_cusum
analyze_cusum(data, target_arg, k_arg, h_arg) ==
    LET target == IF target_arg = None THEN MeanInt(data) ELSE Num(target_arg[1])
        sigma == Std(data)
        k == Mul(sigma, k_arg)
        h == Mul(sigma, h_arg)
        sums == CusumSums(data, Len(data), target, k)
        c_plus == Tail(sums.c_plus)
        c_minus == Tail(sums.c_minus)
    IN  [status |-> "ok",
         c_plus |-> c_plus,
         c_minus |-> c_minus,
         h |-> h,
         out_of_control_points |->
             Comprehension(Len(c_plus),
                           LAMBDA i : Gt(c_plus[i + 1], h) \/ Gt(c_minus[i + 1], h),
                           LAMBDA i : i)]

\* no AlertSystem has been constructed: there is no database
NoDatabase ==
    /\ alerts = {}
    /\ sqlite_sequence = 0
    /\ clock = 0
    /\ reply = NoResult

(***************************************************************************)
(* The analyzer and its callers.  A caller has made one call (`call`);     *)
(* the action of the called method computes what it returns.               *)
(***************************************************************************)
SubgroupSizes == (-1)..MaxSubgroup
SpecLimits == {None, Some(0), Some(1)}

\* specification limits are supplied with sequences of up to MaxCapLen values
LimitsFor(data) ==
    IF Len(data) <= MaxCapLen THEN SpecLimits \X SpecLimits ELSE {<<None, None>>}

XbarCalls ==
    {[op |-> "analyze_xbar", data |-> data, subgroup_size |-> n,
      usl |-> lim[1], lsl |-> lim[2]] :
        <<data, n, lim>> \in
            {<<d, n, l>> \in SeqsUpTo(Values, MaxLen) \X SubgroupSizes
                             \X (SpecLimits \X SpecLimits) : l \in LimitsFor(d)}}

RChartCalls ==
    {[op |-> "analyze_r_chart", data |-> data, subgroup_size |-> n] :
        data \in SeqsUpTo(Values, MaxLen), n \in SubgroupSizes}

\* measurements around 100 with their specification limits: samples of mean
\* 100 with standard deviation 5, 2 and sqrt(50), and an off-centre one
Samples == {<<95, 100, 105>>, <<98, 100, 102>>, <<95, 105>>, <<95, 100, 108>>}
SampleLimits == {None, Some(85), Some(100), Some(115)}

XbarSampleCalls ==
    {[op |-> "analyze_xbar", data |-> data, subgroup_size |-> n,
      usl |-> usl, lsl |-> lsl] :
        data \in Samples, n \in SubgroupSizes,
        usl \in SampleLimits, lsl \in SampleLimits}

\* nine subgroups of two values: eight ranges of 0 and then a range of 1,
\* eight ranges of 1 and then a range of 0
LongRuns == {<<0, 0, 0, 0, 0, 0, 0, 0, 0, 0, 0, 0, 0, 0, 0, 0, 0, 1>>,
             <<0, 1, 0, 1, 0, 1, 0, 1, 0, 1, 0, 1, 0, 1, 0, 1, 0, 0>>}

RChartRunCalls ==
    {[op |-> "analyze_r_chart", data |-> data, subgroup_size |-> n] :
        data \in LongRuns, n \in SubgroupSizes}

\* defect counts and sample sizes, of the same length or one a value longer
PChartCalls ==
    {[op |-> "analyze_p_chart", defects |-> d, sample_sizes |-> n] :
        <<d, n>> \in {<<d, n>> \in SeqsUpTo(0..MaxSampleSize, MaxSamples)
                                   \X SeqsUpTo((-1)..MaxSampleSize, MaxSamples) :
                         Len(d) - Len(n) \in {-1, 0, 1}}}

\* k and h as rationals: the defaults 0.5 and 5, and 0, 1
CusumCalls ==
    {[op |-> "analyze_cusum", data |-> data, target |-> t, k |-> k, h |-> h] :
        data \in SeqsUpTo(Values, MaxCusumLen), t \in {None, Some(0), Some(1)},
        k \in {Q(0, 1), Q(1, 2), Q(1, 1)}, h \in {Q(1, 1), Q(5, 1)}}

\* inspected lots, defects over sample sizes: no defect at all, one bad lot
\* among equal lots, one small bad lot, one clean lot among bad ones
PChartSamples == {<<<<0, 0, 0, 0>>, <<100, 100, 100, 100>>>>,
                  <<<<0, 0, 30>>, <<100, 100, 100>>>>,
                  <<<<10, 10, 10>>, <<100, 20, 100>>>>,
                  <<<<0, 40, 40>>, <<100, 100, 100>>>>}

PChartSampleCalls ==
    {[op |-> "analyze_p_chart", defects |-> lot[1], sample_sizes |-> lot[2]] :
        lot \in PChartSamples}

\* m values of mean 100 and standard deviation 1: 99 and 101 in turn, m odd,
\* the last one 100
Noise(m) == [i \in 1..m |-> IF i = m THEN 100 ELSE IF i % 2 = 1 THEN 99 ELSE 101]

\* first halves of mean 100 with their standard deviation
FirstHalves == {[first |-> <<98, 100, 102>>, sigma |-> 2],
                [first |-> Noise(13), sigma |-> 1],
                [first |-> Noise(17), sigma |-> 1]}

\* a step shift: the first half, then the same values 4 sigma higher
StepShift(half) ==
    half.first \o [i \in 1..Len(half.first) |-> half.first[i] + 4 * half.sigma]

\* step-shift sequences analysed with the defaults k = 0.5 and h = 5, with
\* the default target and with the target 100
CusumShiftCalls ==
    {[op |-> "analyze_cusum", data |-> StepShift(half), target |-> t,
      k |-> Q(1, 2), h |-> Q(5, 1)] :
        half \in FirstHalves, t \in {None, Some(100)}}

Init ==
    /\ sigma_multiplier = 3
    /\ pc = "called"
    /\ call \in XbarCalls \cup XbarSampleCalls \cup RChartCalls \cup RChartRunCalls
                 \cup PChartCalls \cup PChartSampleCalls
                 \cup CusumCalls \cup CusumShiftCalls
    /\ result = NoResult
    /\ frames = <<>>
    /\ NoDatabase

AnalyzeXbar ==
    /\ pc = "called"
    /\ call.op = "analyze_xbar"
    /\ result' = analyze_xbar(call.data, call.subgroup_size, call.usl, call.lsl)
    /\ pc' = "returned"
    /\ UNCHANGED <<sigma_multiplier, call, frames, alertVars>>

AnalyzeRChart ==
    /\ pc = "called"
    /\ call.op = "analyze_r_chart"
    /\ result' = analyze_r_chart(call.data, call.subgroup_size)
    /\ pc' = "returned"
    /\ UNCHANGED <<sigma_multiplier, call, frames, alertVars>>

AnalyzePChart ==
    /\ pc = "called"
    /\ call.op = "analyze_p_chart"
    /\ result' = analyze_p_chart(call.defects, call.sample_sizes)
    /\ pc' = "returned"
    /\ UNCHANGED <<sigma_multiplier, call, frames, alertVars>>

AnalyzeCusum ==
    /\ pc = "called"
    /\ call.op = "analyze_cusum"
    /\ result' = analyze_cusum(call.data, call.target, call.k, call.h)
    /\ pc' = "returned"
    /\ UNCHANGED <<sigma_multiplier, call, frames, alertVars>>

Next ==
    \/ AnalyzeXbar
    \/ AnalyzeRChart
    \/ AnalyzePChart
    \/ AnalyzeCusum

Spec == Init /\ [][Next]_vars

(***************************************************************************)
(* What the claims speak about.                                            *)
(***************************************************************************)
Returned(op) == pc = "returned" /\ call.op = op /\ result.status = "ok"

XbarReturned == Returned("analyze_xbar")

\* the plotted sequence of an X-bar call, and the number of plotted points
\* of any call
Plotted == SubgroupMeans(call.data, call.subgroup_size)

PlottedCount ==
    CASE call.op \in {"analyze_xbar", "analyze_r_chart"} ->
             Len(Subgroups(call.data, call.subgroup_size))
      [] call.op = "analyze_p_chart" ->
             IF Len(call.defects) < Len(call.sample_sizes)
             THEN Len(call.defects) ELSE Len(call.sample_sizes)
      [] call.op = "analyze_cusum" -> Len(call.data)

Occurrences(seq, x) == Cardinality({j \in 1..Len(seq) : seq[j] = x})

\* C1: every out-of-control index of every chart is an index of a plotted
\* point: 0 <= i < number of full subgroups (X-bar, R), samples (p), values
\* (CUSUM).
C1_IndicesInRange ==
    (pc = "returned" /\ result.status = "ok") =>
        \A j \in 1..Len(result.out_of_control_points) :
            result.out_of_control_points[j] \in 0..(PlottedCount - 1)

\* an X-bar result that flags its last plotted point
C1_Witness ==
    /\ XbarReturned
    /\ PlottedCount >= 3
    /\ \E j \in 1..Len(result.out_of_control_points) :
          result.out_of_control_points[j] = PlottedCount - 1

\* the inputs C2 speaks of: at least one full subgroup; samples of positive
\* size with between 0 and size defects each
C2_Input ==
    \/ /\ call.op \in {"analyze_xbar", "analyze_r_chart"}
       /\ PlottedCount >= 1
    \/ /\ call.op = "analyze_p_chart"
       /\ Len(call.defects) = Len(call.sample_sizes)
       /\ Len(call.defects) >= 1
       /\ \A i \in 1..Len(call.defects) :
             call.sample_sizes[i] > 0 /\ call.defects[i] \in 0..call.sample_sizes[i]

\* C2: an X-bar, R or p result has lcl <= center_line <= ucl.
C2_LimitsOrdered ==
    (pc = "returned" /\ result.status = "ok" /\ C2_Input) =>
        /\ Le(result.lcl, result.center_line)
        /\ Le(result.center_line, result.ucl)

\* an R chart whose limits lie strictly apart
C2_Witness ==
    /\ Returned("analyze_r_chart")
    /\ C2_Input
    /\ Lt(result.center_line, result.ucl)
    /\ call.subgroup_size = 2

\* C3: no index occurs twice in the out_of_control_points of an X-bar
\* result.
C3_Deduplicated ==
    (XbarReturned /\ call.subgroup_size >= 2) =>
        \A j \in 1..Len(result.out_of_control_points) :
            Occurrences(result.out_of_control_points,
                        result.out_of_control_points[j]) = 1

(***************************************************************************)
(* The Western Electric rules, restated on the plotted sequence of an      *)
(* X-bar call and the limits of its result.  Point j is the 0-based j.     *)
(***************************************************************************)
Point(j) == Plotted[j + 1]

\* sigma = (ucl - center_line) / 3
ResultSigma == Div(Sub(result.ucl, result.center_line), Num(3))

\* |Point(j) - center_line| > m * sigma
Beyond(j, m) ==
    Gt(Abs(Sub(Point(j), result.center_line)), Mul(ResultSigma, Num(m)))

Above(j) == Gt(Point(j), result.center_line)
Below(j) == Lt(Point(j), result.center_line)

HasViolation(j, rule) == Occurrences(result.violations, <<j, rule>>) >= 1

Fires1(j) == Gt(Point(j), result.ucl) \/ Lt(Point(j), result.lcl)
Fires2(j) == j >= 2 /\ Cardinality({i \in (j - 2)..j : Beyond(i, 2)}) >= 2
Fires3(j) == j >= 4 /\ Cardinality({i \in (j - 4)..j : Beyond(i, 1)}) >= 4
Fires4(j) == j >= 7 /\ (\/ \A i \in (j - 7)..j : Above(i)
                        \/ \A i \in (j - 7)..j : Below(i))

Fires(j, rule) ==
    CASE rule = BEYOND_3SIGMA -> Fires1(j)
      [] rule = TWO_OF_THREE_BEYOND_2SIGMA -> Fires2(j)
      [] rule = FOUR_OF_FIVE_BEYOND_1SIGMA -> Fires3(j)
      [] rule = EIGHT_CONSECUTIVE_SAME_SIDE -> Fires4(j)

Rules == {BEYOND_3SIGMA, TWO_OF_THREE_BEYOND_2SIGMA,
          FOUR_OF_FIVE_BEYOND_1SIGMA, EIGHT_CONSECUTIVE_SAME_SIDE}

\* C4: Rule 4 flags index j exactly when j >= 7 and the eight points j-7..j
\* are all strictly above the center line or all strictly below it.
C4_Rule4 ==
    XbarReturned =>
        \A j \in 0..(PlottedCount - 1) :
            HasViolation(j, EIGHT_CONSECUTIVE_SAME_SIDE) <=> Fires4(j)

\* eight points above the center line and then one below: index 7 is
\* flagged by Rule 4, index 8 is not
C4_Witness ==
    /\ XbarReturned
    /\ PlottedCount = 9
    /\ \A i \in 0..7 : Above(i)
    /\ Below(8)
    /\ HasViolation(7, EIGHT_CONSECUTIVE_SAME_SIDE)
    /\ ~HasViolation(8, EIGHT_CONSECUTIVE_SAME_SIDE)

\* C5: Rule 2 flags index j exactly when j >= 2 and at least two of the
\* points j-2, j-1, j differ from the center line by more than 2*sigma,
\* whatever their sides.
C5_Rule2 ==
    XbarReturned =>
        \A j \in 0..(PlottedCount - 1) :
            HasViolation(j, TWO_OF_THREE_BEYOND_2SIGMA) <=> Fires2(j)

\* one point beyond +2 sigma, one beyond -2 sigma, and the flagged last
\* point of the window within 2 sigma
C5_Witness ==
    /\ XbarReturned
    /\ \E j \in 2..(PlottedCount - 1) :
          /\ HasViolation(j, TWO_OF_THREE_BEYOND_2SIGMA)
          /\ ~Beyond(j, 2)
          /\ Beyond(j - 1, 2) /\ Beyond(j - 2, 2)
          /\ (Above(j - 1) /\ Below(j - 2)) \/ (Below(j - 1) /\ Above(j - 2))
    /\ Sign(ResultSigma) > 0

\* C6: Rule 3 flags index j exactly when j >= 4 and at least four of the
\* points j-4..j differ from the center line by more than sigma, whatever
\* their sides; under five plotted points there is no Rule 3 entry.
C6_Rule3 ==
    XbarReturned =>
        /\ \A j \in 0..(PlottedCount - 1) :
              HasViolation(j, FOUR_OF_FIVE_BEYOND_1SIGMA) <=> Fires3(j)
        /\ PlottedCount < 5 =>
              \A v \in 1..Len(result.violations) :
                  result.violations[v][2] # FOUR_OF_FIVE_BEYOND_1SIGMA

\* exactly four of five points beyond sigma, on both sides, and the fifth
\* flagged
C6_Witness ==
    /\ XbarReturned
    /\ \E j \in 4..(PlottedCount - 1) :
          /\ HasViolation(j, FOUR_OF_FIVE_BEYOND_1SIGMA)
          /\ Cardinality({i \in (j - 4)..j : Beyond(i, 1)}) = 4
          /\ \E i \in (j - 4)..j : Beyond(i, 1) /\ Above(i)
          /\ \E i \in (j - 4)..j : Beyond(i, 1) /\ Below(i)

\* C7: Rule 1 flags index i exactly when the plotted value is strictly
\* above ucl or strictly below lcl; a value equal to a limit is not flagged.
C7_Rule1 ==
    XbarReturned =>
        \A j \in 0..(PlottedCount - 1) :
            HasViolation(j, BEYOND_3SIGMA) <=> Fires1(j)

\* a chart with a point below lcl that Rule 1 flags and a point it does not
C7_Witness ==
    /\ XbarReturned
    /\ \E j \in 0..(PlottedCount - 1) :
          Lt(Point(j), result.lcl) /\ HasViolation(j, BEYOND_3SIGMA)
    /\ \E j \in 0..(PlottedCount - 1) : ~HasViolation(j, BEYOND_3SIGMA)
    /\ Sign(ResultSigma) > 0

\* C8: violations holds exactly one entry (i, rule) for each plotted index
\* i and rule that fired at i, and nothing else.
C8_OneEntryPerFiring ==
    XbarReturned =>
        /\ \A j \in 0..(PlottedCount - 1), rule \in Rules :
              Occurrences(result.violations, <<j, rule>>)
                  = IF Fires(j, rule) THEN 1 ELSE 0
        /\ \A v \in 1..Len(result.violations) :
              /\ result.violations[v][1] \in 0..(PlottedCount - 1)
              /\ result.violations[v][2] \in Rules

\* a point that three rules flag appears three times
C8_Witness ==
    /\ XbarReturned
    /\ \E j \in 0..(PlottedCount - 1) :
          /\ Cardinality({rule \in Rules : Fires(j, rule)}) = 3
          /\ Cardinality({v \in 1..Len(result.violations) :
                             result.violations[v][1] = j}) = 3

IsConstant(data, c) == \A i \in 1..Len(data) : data[i] = c

SwapSubgroups(data, n, i) ==
    [k \in 1..Len(data) |->
        IF k \in ((i - 1) * n + 1)..(i * n) THEN data[k + n]
        ELSE IF k \in (i * n + 1)..((i + 1) * n) THEN data[k - n]
        ELSE data[k]]

\* the indices Rule 4 flags in an X-bar result
Rule4Indices(res) ==
    {res.violations[v][1] : v \in {u \in 1..Len(res.violations) :
        res.violations[u][2] = EIGHT_CONSECUTIVE_SAME_SIDE}}

CapabilityKeys == {"Cp", "Cpk", "Pp", "Ppk"}

\* C11: the result of analyze_xbar carries process_capability, a mapping
\* with the keys Cp, Cpk, Pp and Ppk, exactly when usl and lsl were both
\* supplied; a limit of 0 is a supplied limit.
C11_CapabilityPresence ==
    XbarReturned =>
        IF call.usl # None /\ call.lsl # None
        THEN /\ result.process_capability # None
             /\ DOMAIN result.process_capability[1] = CapabilityKeys
        ELSE result.process_capability = None

\* both limits supplied, one of them 0, and the four indices returned
C11_Witness ==
    /\ XbarReturned
    /\ call.usl = Some(1)
    /\ call.lsl = Some(0)
    /\ Len(call.data) >= 2
    /\ result.process_capability # None
    /\ DOMAIN result.process_capability[1] = CapabilityKeys

\* the capability indices of an X-bar result that has them
Capability == result.process_capability[1]

HasCapability == XbarReturned /\ result.process_capability # None

\* the mean of the data lies midway between lsl and usl
MeanMidway ==
    Eq(Mul(MeanInt(call.data), Num(2)), Num(call.usl[1] + call.lsl[1]))

\* C12: when the mean lies midway between lsl and usl and sigma > 0, Cpk
\* equals Cp = (usl - lsl) / (6*sigma); for mean 100, standard deviation 5,
\* usl = 115 and lsl = 85 both are exactly 1.
C12_CenteredCapability ==
    (HasCapability /\ IsPositive(Std(call.data)) /\ MeanMidway) =>
        /\ Eq(Capability.Cpk, Capability.Cp)
        /\ Eq(Capability.Cp,
              DivRoot(Num(call.usl[1] - call.lsl[1]), Mul(Std(call.data), Num(6))))
        /\ (/\ Eq(MeanInt(call.data), Num(100))
            /\ Eq(Std(call.data), Num(5))
            /\ call.usl = Some(115) /\ call.lsl = Some(85)) =>
               Eq(Capability.Cp, Num(1)) /\ Eq(Capability.Cpk, Num(1))

\* the sample of mean 100 and standard deviation 5 between 85 and 115
C12_Witness ==
    /\ HasCapability
    /\ Eq(MeanInt(call.data), Num(100))
    /\ Eq(Std(call.data), Num(5))
    /\ call.usl = Some(115) /\ call.lsl = Some(85)
    /\ Eq(Capability.Cp, Num(1))
    /\ Eq(Capability.Cpk, Num(1))

(***************************************************************************)
(* The R chart.                                                            *)
(***************************************************************************)
\* the plotted ranges of an R-chart call; range j is the 0-based j
Ranges == SubgroupRanges(call.data, call.subgroup_size)

RangeOutside(j) == Gt(Ranges[j + 1], result.ucl) \/ Lt(Ranges[j + 1], result.lcl)

\* C13: analyze_r_chart lists subgroup j, once, exactly when its range is
\* strictly above ucl or strictly below lcl, and its violations list is
\* empty for every input.
C13_RChartThreshold ==
    Returned("analyze_r_chart") =>
        /\ result.violations = <<>>
        /\ \A j \in 0..(PlottedCount - 1) :
              Occurrences(result.out_of_control_points, j)
                  = IF RangeOutside(j) THEN 1 ELSE 0
        /\ \A v \in 1..Len(result.out_of_control_points) :
              result.out_of_control_points[v] \in 0..(PlottedCount - 1)

\* eight consecutive ranges below the center line and a ninth above ucl:
\* the ninth is the only point listed, and there is no violation
C13_Witness ==
    /\ Returned("analyze_r_chart")
    /\ PlottedCount = 9
    /\ \A j \in 0..7 : Lt(Ranges[j + 1], result.center_line)
    /\ result.out_of_control_points = <<8>>
    /\ result.violations = <<>>

(***************************************************************************)
(* CUSUM.                                                                  *)
(***************************************************************************)
\* the call analyses the step shift built on `half` with the default target
\* and the defaults k = 0.5, h = 5
DefaultStepShiftCall(half) ==
    /\ Returned("analyze_cusum")
    /\ call.data = StepShift(half)
    /\ Eq(MeanInt(half.first), Num(100))
    /\ Eq(Std(half.first), Num(half.sigma))
    /\ call.target = None
    /\ call.k = Q(1, 2)
    /\ call.h = Q(5, 1)

FlagsIn(indices) ==
    {v \in 1..Len(result.out_of_control_points) :
        result.out_of_control_points[v] \in indices}

\* C14: on a step shift (first half at mean 100, second half 4 sigma
\* higher) analysed with the default target, k = 0.5 and h = 5, no index of
\* the first half is out of control and at least one of the second half is.
C14_StepShiftDetected ==
    \A half \in FirstHalves :
        DefaultStepShiftCall(half) =>
            /\ FlagsIn(0..(Len(half.first) - 1)) = {}
            /\ FlagsIn(Len(half.first)..(2 * Len(half.first) - 1)) # {}

\* target, k_abs = k * sigma and the deviation of value i (counted from 1)
\* of a CUSUM call
CallTarget ==
    IF call.target = None THEN MeanInt(call.data) ELSE Num(call.target[1])

KAbs == Mul(Std(call.data), call.k)

Deviation(i) == Sub(Num(call.data[i]), CallTarget)

\* the running sum before value i: 0 before the first value
Before(sums, i) == IF i = 1 THEN Zero ELSE sums[i - 1]

Signal(i) == Gt(result.c_plus[i], result.h) \/ Gt(result.c_minus[i], result.h)

\* C15: c_plus and c_minus have one entry per value, each
\* max(0, previous + deviation - k_abs) resp. max(0, previous - deviation
\* - k_abs) with the sums starting at 0 and carried on after a signal;
\* every entry is >= 0; index i is out of control exactly when c_plus[i] or
\* c_minus[i] is above h_abs.
C15_CusumRecurrence ==
    Returned("analyze_cusum") =>
        /\ Len(result.c_plus) = Len(call.data)
        /\ Len(result.c_minus) = Len(call.data)
        /\ \A i \in 1..Len(call.data) :
              /\ Eq(result.c_plus[i],
                    Max0(Sub(Add(Before(result.c_plus, i), Deviation(i)), KAbs)))
              /\ Eq(result.c_minus[i],
                    Max0(Sub(Sub(Before(result.c_minus, i), Deviation(i)), KAbs)))
              /\ Le(Zero, result.c_plus[i])
              /\ Le(Zero, result.c_minus[i])
              /\ Occurrences(result.out_of_control_points, i - 1)
                    = IF Signal(i) THEN 1 ELSE 0
        /\ \A v \in 1..Len(result.out_of_control_points) :
              result.out_of_control_points[v] \in 0..(Len(call.data) - 1)

\* a signal followed by a value whose sum carries on from the sum that
\* signalled, and a value whose sum is held at 0
C15_Witness ==
    /\ Returned("analyze_cusum")
    /\ \E i \in 2..Len(call.data) :
          /\ Signal(i - 1) /\ Signal(i)
          /\ Gt(result.c_plus[i - 1], result.h)
          /\ Eq(result.c_plus[i], Sub(Add(result.c_plus[i - 1], Deviation(i)), KAbs))
    /\ \E i \in 1..Len(call.data) :
          /\ Lt(Sub(Add(Before(result.c_plus, i), Deviation(i)), KAbs), Zero)
          /\ Eq(result.c_plus[i], Zero)
    /\ result.out_of_control_points # <<>>

(***************************************************************************)
(* The p chart.                                                            *)
(***************************************************************************)
AllZero(seq) == \A i \in 1..Len(seq) : seq[i] = 0
AllPositive(seq) == \A i \in 1..Len(seq) : seq[i] > 0

\* C16: with no defect in any sample and positive sample sizes,
\* analyze_p_chart returns center_line = 0, lcl = 0, ucl = 0 and no
\* out-of-control point.
C16_NoDefects ==
    (/\ Returned("analyze_p_chart")
     /\ Len(call.defects) >= 1 /\ Len(call.sample_sizes) >= 1
     /\ AllZero(call.defects) /\ AllPositive(call.sample_sizes)) =>
        /\ Eq(result.center_line, Zero)
        /\ Eq(result.lcl, Zero)
        /\ Eq(result.ucl, Zero)
        /\ result.out_of_control_points = <<>>

\* four samples of 100 without a defect
C16_Witness ==
    /\ Returned("analyze_p_chart")
    /\ call.defects = <<0, 0, 0, 0>>
    /\ call.sample_sizes = <<100, 100, 100, 100>>
    /\ Eq(result.ucl, Zero)
    /\ result.out_of_control_points = <<>>

\* defects[i] / sample_sizes[i] for a sample i (counted from 1) that both
\* sequences have
Proportion(i) == Div(Num(call.defects[i]), Num(call.sample_sizes[i]))

Paired == 1..PlottedCount

\* C17: the center line of a p chart is the pooled proportion
\* sum(defects) / sum(sample_sizes); lcl >= 0 for every input; sample i is
\* listed exactly when defects[i] / sample_sizes[i] is strictly above ucl
\* or strictly below lcl.
C17_PooledProportion ==
    Returned("analyze_p_chart") =>
        /\ SumInt(call.sample_sizes) # 0 =>
              Eq(Mul(result.center_line, Num(SumInt(call.sample_sizes))),
                 Num(SumInt(call.defects)))
        /\ Le(Zero, result.lcl)
        /\ \A i \in Paired :
              Occurrences(result.out_of_control_points, i - 1)
                  = IF \/ Gt(Proportion(i), result.ucl)
                       \/ Lt(Proportion(i), result.lcl) THEN 1 ELSE 0
        /\ \A v \in 1..Len(result.out_of_control_points) :
              result.out_of_control_points[v] + 1 \in Paired

\* samples of unequal sizes whose pooled proportion is not the mean of
\* their proportions, one of them above ucl; lcl above 0
C17_Witness ==
    /\ Returned("analyze_p_chart")
    /\ Len(call.defects) = Len(call.sample_sizes)
    /\ \A i \in Paired : call.defects[i] \in 0..call.sample_sizes[i]
    /\ ~Eq(result.center_line,
           MeanNum(Proportions(call.defects, call.sample_sizes)))
    /\ IsPositive(result.lcl)
    /\ result.out_of_control_points # <<>>
    /\ \E i \in Paired : Gt(Proportion(i), result.ucl)

(***************************************************************************)
(* Errors.  A call that raises has a result whose status names the error.  *)
(***************************************************************************)
CapabilityFinite ==
    \A key \in CapabilityKeys : IsFinite(Capability[key])

\* C18: an X-bar call with both specification limits on data of standard
\* deviation 0 reports DegenerateDistribution and returns no result; no
\* returned process_capability holds an infinite or NaN value.
C18_DegenerateReported ==
    (/\ pc = "returned"
     /\ call.op = "analyze_xbar"
     /\ call.subgroup_size >= 2
     /\ PlottedCount >= 1
     /\ call.usl # None /\ call.lsl # None
     /\ IsZero(Std(call.data))) =>
        /\ result.status = "DegenerateDistribution"
        /\ ~(result.status = "ok" /\ result.process_capability # None
                /\ ~CapabilityFinite)

\* C19: analyze_xbar and analyze_r_chart on fewer values than one subgroup
\* report InsufficientData and return no result.
C19_InsufficientDataReported ==
    (/\ pc = "returned"
     /\ call.op \in {"analyze_xbar", "analyze_r_chart"}
     /\ call.subgroup_size >= 2
     /\ Len(call.data) < call.subgroup_size) =>
        result.status = "InsufficientData"

\* the arguments that C20 calls invalid
InvalidArguments ==
    \/ /\ call.op \in {"analyze_xbar", "analyze_r_chart"}
       /\ call.subgroup_size < 2
    \/ /\ call.op = "analyze_p_chart"
       /\ \/ Len(call.defects) # Len(call.sample_sizes)
          \/ \E i \in 1..Len(call.sample_sizes) : call.sample_sizes[i] < 0

\* C20: a call with a subgroup_size below 2, with defects and sample_sizes
\* of different lengths or with a negative sample size reports
\* InvalidParameter and returns no result.
C20_InvalidParameterReported ==
    (pc = "returned" /\ InvalidArguments) => result.status = "InvalidParameter"

(***************************************************************************)
(* Several callers of one analyzer.  Each caller runs one call in a frame  *)
(* of its own; the steps of the calls interleave.  analyze_cusum runs in   *)
(* steps, one for each pass of its loop.                                   *)
(***************************************************************************)
Threads == 1..2
MaxSharedLen == 2    \* longest sequence given to a concurrent call

SharedCalls ==
    {[op |-> "analyze_cusum", data |-> data, target |-> t,
      k |-> Q(1, 2), h |-> Q(5, 1)] :
        data \in SeqsUpTo(Values, MaxSharedLen), t \in {None, Some(0)}}
    \cup {[op |-> "analyze_xbar", data |-> data, subgroup_size |-> n,
           usl |-> None, lsl |-> None] :
             data \in SeqsUpTo(Values, MaxSharedLen), n \in 1..2}
    \cup {[op |-> "analyze_r_chart", data |-> data, subgroup_size |-> n] :
             data \in SeqsUpTo(Values, MaxSharedLen), n \in 1..2}
    \cup {[op |-> "analyze_p_chart", defects |-> d, sample_sizes |-> n] :
             d \in SeqsUpTo(Values, 1), n \in SeqsUpTo(Values, 1)}

\* the frame of a call that has not started
NewFrame(c) == [call |-> c, pc |-> "called", locals |-> None, result |-> NoResult]

ConcurrentInit ==
    /\ sigma_multiplier = 3
    /\ pc = "shared"
    /\ call = None
    /\ result = NoResult
    /\ frames \in {[t \in Threads |-> NewFrame(c[t])] : c \in [Threads -> SharedCalls]}
    /\ NoDatabase

\* a step of thread t writes its own frame only
FrameStep(t, frame) ==
    /\ frames' = [frames EXCEPT ![t] = frame]
    /\ UNCHANGED <<sigma_multiplier, pc, call, result, alertVars>>

\* analyze_cusum up to its loop: target, sigma, k, h and the two lists
CusumLocals(c) ==
    [target |-> IF c.target = None THEN MeanInt(c.data) ELSE Num(c.target[1]),
     k |-> Mul(Std(c.data), c.k),
     h |-> Mul(Std(c.data), c.h),
     c_plus |-> <<Zero>>,
     c_minus |-> <<Zero>>]

\* one pass of the loop of analyze_cusum over the next value
CusumAppend(locals, value) ==
    [locals EXCEPT
        !.c_plus = Append(@, Max0(Sub(Add(@[Len(@)], Sub(Num(value), locals.target)),
                                      locals.k))),
        !.c_minus = Append(@, Max0(Sub(Sub(@[Len(@)], Sub(Num(value), locals.target)),
                                       locals.k)))]

\* what analyze_cusum returns from its lists
CusumResult(locals) ==
    [status |-> "ok",
     c_plus |-> Tail(locals.c_plus),
     c_minus |-> Tail(locals.c_minus),
     h |-> locals.h,
     out_of_control_points |->
         Comprehension(Len(locals.c_plus) - 1,
                       LAMBDA i : Gt(locals.c_plus[i + 2], locals.h)
                                  \/ Gt(locals.c_minus[i + 2], locals.h),
                       LAMBDA i : i)]

\* a start of analyze_cusum that keeps the decision interval on the analyzer
CusumStart_OnInstance(t) ==
    /\ frames[t].pc = "called"
    /\ frames[t].call.op = "analyze_cusum"
    /\ frames' = [frames EXCEPT ![t] = [frames[t] EXCEPT
                                           !.pc = "loop",
                                           !.locals = CusumLocals(frames[t].call)]]
    /\ sigma_multiplier' = frames[t].call.h.a
    /\ UNCHANGED <<pc, call, result, alertVars>>

CusumStart(t) ==
    /\ frames[t].pc = "called"
    /\ frames[t].call.op = "analyze_cusum"
    /\ FrameStep(t, [frames[t] EXCEPT !.pc = "loop",
                                      !.locals = CusumLocals(frames[t].call)])

CusumIterate(t) ==
    /\ frames[t].pc = "loop"
    /\ Len(frames[t].locals.c_plus) <= Len(frames[t].call.data)
    /\ FrameStep(t, [frames[t] EXCEPT
                        !.locals = CusumAppend(@, frames[t].call.data[Len(@.c_plus)])])

CusumReturn(t) ==
    /\ frames[t].pc = "loop"
    /\ Len(frames[t].locals.c_plus) > Len(frames[t].call.data)
    /\ FrameStep(t, [frames[t] EXCEPT !.pc = "returned",
                                      !.result = CusumResult(frames[t].locals)])

XbarRun(t) ==
    /\ frames[t].pc = "called"
    /\ frames[t].call.op = "analyze_xbar"
    /\ FrameStep(t, [frames[t] EXCEPT !.pc = "returned",
                        !.result = analyze_xbar(frames[t].call.data,
                                                frames[t].call.subgroup_size,
                                                frames[t].call.usl, frames[t].call.lsl)])

RChartRun(t) ==
    /\ frames[t].pc = "called"
    /\ frames[t].call.op = "analyze_r_chart"
    /\ FrameStep(t, [frames[t] EXCEPT !.pc = "returned",
                        !.result = analyze_r_chart(frames[t].call.data,
                                                   frames[t].call.subgroup_size)])

PChartRun(t) ==
    /\ frames[t].pc = "called"
    /\ frames[t].call.op = "analyze_p_chart"
    /\ FrameStep(t, [frames[t] EXCEPT !.pc = "returned",
                        !.result = analyze_p_chart(frames[t].call.defects,
                                                   frames[t].call.sample_sizes)])

ConcurrentNext ==
    \E t \in Threads :
        \/ CusumStart(t)
        \/ CusumIterate(t)
        \/ CusumReturn(t)
        \/ XbarRun(t)
        \/ RChartRun(t)
        \/ PChartRun(t)

ConcurrentSpec == ConcurrentInit /\ [][ConcurrentNext]_vars

\* what call c returns when it runs alone
Alone(c) ==
    CASE c.op = "analyze_xbar" -> analyze_xbar(c.data, c.subgroup_size, c.usl, c.lsl)
      [] c.op = "analyze_r_chart" -> analyze_r_chart(c.data, c.subgroup_size)
      [] c.op = "analyze_p_chart" -> analyze_p_chart(c.defects, c.sample_sizes)
      [] c.op = "analyze_cusum" -> analyze_cusum(c.data, c.target, c.k, c.h)

\* a step that leaves the analyzer and every caller's arguments as they were,
\* a call that returns in it returning what it returns alone
IsolatedStep ==
    /\ sigma_multiplier' = sigma_multiplier
    /\ \A t \in Threads :
          /\ frames'[t].call = frames[t].call
          /\ frames'[t].pc = "returned" => frames'[t].result = Alone(frames[t].call)

\* C21: under every interleaving of the steps of concurrent calls on one
\* analyzer, no step changes sigma_multiplier or the arguments of any call,
\* and each call returns what the same call returns when it runs alone.
C21_Isolation == [][IsolatedStep]_vars

\* one analyze_cusum has returned out-of-control points while another one
\* is between two passes of its loop
C21_Witness ==
    /\ frames # <<>>
    /\ \E t \in Threads, u \in Threads :
          /\ frames[t].call.op = "analyze_cusum"
          /\ frames[t].pc = "returned"
          /\ frames[t].result.out_of_control_points # <<>>
          /\ frames[u].call.op = "analyze_cusum"
          /\ frames[u].pc = "loop"
          /\ Len(frames[u].locals.c_plus) = 2
          /\ Len(frames[u].call.data) = 2

(***************************************************************************)
(* The alert system.  The alerts table lives in a SQLite file that every   *)
(* AlertSystem object and every dashboard request opens anew.  A row has   *)
(* the columns the queries read: id, severity, created_at, is_dismissed    *)
(* and dismissed_at.  The clock is the day, which clear_old_alerts         *)
(* compares, and the instant, which moves on with every insert.            *)
(***************************************************************************)
MaxAlerts == 11      \* largest id the table gives out
MaxCallerId == 6     \* largest id of an existing alert that callers pass
MaxDay == 1          \* last day of the clock

SEVERITY_LEVELS == <<"INFO", "WARNING", "ERROR", "CRITICAL">>

Levels == {SEVERITY_LEVELS[i] : i \in 1..Len(SEVERITY_LEVELS)}

\* the severities callers pass, one of them not a level
SeverityInputs == Levels \cup {"FATAL"}

\* ids callers pass: ids the table gives out and one it never does
AlertIds == 1..MaxCallerId \cup {MaxAlerts + 1}

\* the days argument of clear_old_alerts
Days == (-1)..MaxDay

\* the severities of the five sample alerts, in the order they are created
SampleSeverities == <<"WARNING", "CRITICAL", "WARNING", "INFO", "ERROR">>

\* the database: the rows, the AUTOINCREMENT counter and the clock
Database == [alerts |-> alerts, sqlite_sequence |-> sqlite_sequence, clock |-> clock]

\* an id taken from the largest rowid in the table
NextId_MaxRowid(rows, sequence) ==
    IF rows = {} THEN 1 ELSE (CHOOSE i \in {r.id : r \in rows} :
                                  \A r \in rows : r.id <= i) + 1

\* INTEGER PRIMARY KEY AUTOINCREMENT: one more than the largest id ever given
NextId(rows, sequence) == sequence + 1

\* create_alert: an invalid severity becomes INFO
ValidSeverity(severity) == IF severity \in Levels THEN severity ELSE "INFO"

\* the INSERT of create_alert, at the next instant of the clock
create_alert(db, severity) ==
    [alerts |-> db.alerts \cup
                  {[id |-> NextId(db.alerts, db.sqlite_sequence),
                    severity |-> ValidSeverity(severity),
                    created_at |-> db.clock.instant + 1,
                    is_dismissed |-> 0,
                    dismissed_at |-> None]},
     sqlite_sequence |-> NextId(db.alerts, db.sqlite_sequence),
     clock |-> [db.clock EXCEPT !.instant = @ + 1]]

\* rows with is_dismissed = 0
ActiveRows(rows) == {r \in rows : r.is_dismissed = 0}

\* the sample alerts created one after the other
RECURSIVE CreateSamples(_, _)
CreateSamples(db, n) ==
    IF n = 0 THEN db
    ELSE create_alert(CreateSamples(db, n - 1), SampleSeverities[n])

\* _create_sample_alerts_if_empty
create_sample_alerts_if_empty(db) ==
    IF Cardinality(ActiveRows(db.alerts)) = 0
    THEN CreateSamples(db, Len(SampleSeverities)) ELSE db

\* the UPDATE of dismiss_alert
Dismissed(rows, alert_id, day) ==
    {IF r.id = alert_id
     THEN [r EXCEPT !.is_dismissed = 1, !.dismissed_at = Some(day)] ELSE r : r \in rows}

\* dismiss_alert returns whether the UPDATE changed a row
dismiss_alert(rows, alert_id) == \E r \in rows : r.id = alert_id

\* the rows clear_old_alerts deletes: dismissed before the day `days` days
\* ago; a negative `days` makes the cutoff NULL, which no row is before
OldRows(rows, days, day) ==
    {r \in rows : /\ r.is_dismissed = 1
                  /\ days >= 0
                  /\ r.dismissed_at[1] < day - days}

\* ORDER BY severity, as text
SeverityRank_Text(severity) ==
    CASE severity = "CRITICAL" -> 1
      [] severity = "ERROR" -> 2
      [] severity = "INFO" -> 3
      [] severity = "WARNING" -> 4

\* CASE severity WHEN 'CRITICAL' THEN 1 ... WHEN 'INFO' THEN 4 END
SeverityRank(severity) ==
    CASE severity = "CRITICAL" -> 1
      [] severity = "ERROR" -> 2
      [] severity = "WARNING" -> 3
      [] severity = "INFO" -> 4

\* row r comes before row q in ORDER BY CASE severity ..., created_at DESC
Precedes(r, q) ==
    \/ SeverityRank(r.severity) < SeverityRank(q.severity)
    \/ /\ SeverityRank(r.severity) = SeverityRank(q.severity)
       /\ r.created_at > q.created_at

\* the rows in that order
RECURSIVE Ordered(_)
Ordered(rows) ==
    IF rows = {} THEN <<>>
    ELSE LET first == CHOOSE r \in rows : \A q \in rows \ {r} : Precedes(r, q)
         IN  <<first>> \o Ordered(rows \ {first})

\* the dictionary get_active_alerts makes of a row
ActiveAlert(r) == [id |-> r.id, severity |-> r.severity, created_at |-> r.created_at]

\* get_active_alerts(severity)
get_active_alerts(rows, severity) ==
    LET ordered == Ordered({r \in ActiveRows(rows) :
                               severity = None \/ r.severity = severity[1]})
    IN  [i \in 1..Len(ordered) |-> ActiveAlert(ordered[i])]

\* get_alert(alert_id)
get_alert(rows, alert_id) ==
    IF \E r \in rows : r.id = alert_id
    THEN LET r == CHOOSE r \in rows : r.id = alert_id
         IN  Some([id |-> r.id, severity |-> r.severity, created_at |-> r.created_at,
                   is_dismissed |-> r.is_dismissed # 0,
                   dismissed_at |-> r.dismissed_at])
    ELSE None

\* SELECT severity, COUNT(*) ... WHERE is_dismissed = 0 GROUP BY severity
CountBySeverity(rows) ==
    [s \in {r.severity : r \in ActiveRows(rows)} |->
        Cardinality({r \in ActiveRows(rows) : r.severity = s})]

\* by_severity as the query gives it, without the levels that have no alert
BySeverity_Grouped(rows) == CountBySeverity(rows)

\* by_severity with a 0 for every level that has no active alert
BySeverity(rows) ==
    [s \in Levels \cup DOMAIN CountBySeverity(rows) |->
        IF s \in DOMAIN CountBySeverity(rows) THEN CountBySeverity(rows)[s] ELSE 0]

\* get_alert_statistics
get_alert_statistics(rows) ==
    [total_active |-> Cardinality(ActiveRows(rows)),
     total_all_time |-> Cardinality(rows),
     by_severity |-> BySeverity(rows)]

\* the first AlertSystem has been constructed over a new database file
AlertInit ==
    /\ sigma_multiplier = 3
    /\ pc = "none"
    /\ call = None
    /\ result = NoResult
    /\ frames = <<>>
    /\ alerts = create_sample_alerts_if_empty(
                    [alerts |-> {}, sqlite_sequence |-> 0,
                     clock |-> [day |-> 0, instant |-> 0]]).alerts
    /\ sqlite_sequence = Len(SampleSeverities)
    /\ clock = [day |-> 0, instant |-> Len(SampleSeverities)]
    /\ reply = [op |-> "AlertSystem"]

\* the database becomes db
Stored(db) ==
    /\ alerts' = db.alerts
    /\ sqlite_sequence' = db.sqlite_sequence
    /\ clock' = db.clock
    /\ UNCHANGED <<analyzerVars, frames>>

\* the table can take n more alerts: those the step inserts and, for
\* create_alert, the samples a later AlertSystem() may insert
Room(db, n) == db.sqlite_sequence + n <= MaxAlerts

\* AlertSystem(): _initialize_database over the existing file
Construct ==
    /\ Room(Database, IF ActiveRows(alerts) = {} THEN Len(SampleSeverities) ELSE 0)
    /\ Stored(create_sample_alerts_if_empty(Database))
    /\ reply' = [op |-> "AlertSystem"]

CreateAlert ==
    \E severity \in SeverityInputs :
        /\ Room(Database, 1 + Len(SampleSeverities))
        /\ Stored(create_alert(Database, severity))
        /\ reply' = [op |-> "create_alert", severity |-> severity,
                     value |-> create_alert(Database, severity).sqlite_sequence]

DismissAlert ==
    \E alert_id \in AlertIds :
        /\ Stored([Database EXCEPT !.alerts = Dismissed(@, alert_id, clock.day)])
        /\ reply' = [op |-> "dismiss_alert", alert_id |-> alert_id, raised |-> None,
                     value |-> dismiss_alert(alerts, alert_id)]

ClearOldAlerts ==
    \E days \in Days :
        /\ Stored([Database EXCEPT !.alerts = @ \ OldRows(@, days, clock.day)])
        /\ reply' = [op |-> "clear_old_alerts", days |-> days,
                     value |-> Cardinality(OldRows(alerts, days, clock.day))]

GetActiveAlerts ==
    \E severity \in {None} \cup {Some(s) : s \in SeverityInputs} :
        /\ reply' = [op |-> "get_active_alerts", severity |-> severity,
                     value |-> get_active_alerts(alerts, severity)]
        /\ UNCHANGED <<analyzerVars, frames, alerts, sqlite_sequence, clock>>

GetAlert ==
    \E alert_id \in AlertIds :
        /\ reply' = [op |-> "get_alert", alert_id |-> alert_id,
                     value |-> get_alert(alerts, alert_id)]
        /\ UNCHANGED <<analyzerVars, frames, alerts, sqlite_sequence, clock>>

GetAlertStatistics ==
    /\ reply' = [op |-> "get_alert_statistics", value |-> get_alert_statistics(alerts)]
    /\ UNCHANGED <<analyzerVars, frames, alerts, sqlite_sequence, clock>>

\* GET /api/v1/dashboard/alerts: AlertSystem().get_active_alerts()
GetAlertsRoute ==
    /\ Room(Database, IF ActiveRows(alerts) = {} THEN Len(SampleSeverities) ELSE 0)
    /\ Stored(create_sample_alerts_if_empty(Database))
    /\ reply' = [op |-> "GET /alerts", status |-> 200,
                 value |-> get_active_alerts(
                               create_sample_alerts_if_empty(Database).alerts, None)]

\* DELETE /api/v1/dashboard/alerts/{alert_id}: AlertSystem().dismiss_alert(alert_id),
\* whose return value the route does not read
DismissAlertRoute ==
    \E alert_id \in AlertIds :
        /\ Room(Database, IF ActiveRows(alerts) = {} THEN Len(SampleSeverities) ELSE 0)
        /\ Stored([create_sample_alerts_if_empty(Database) EXCEPT
                      !.alerts = Dismissed(@, alert_id, clock.day)])
        /\ reply' = [op |-> "DELETE /alerts", alert_id |-> alert_id, status |-> 200,
                     value |-> "success"]

\* a day passes
Tick ==
    /\ clock.day < MaxDay
    /\ clock' = [clock EXCEPT !.day = @ + 1]
    /\ UNCHANGED <<analyzerVars, frames, alerts, sqlite_sequence, reply>>

AlertNext ==
    \/ Construct
    \/ CreateAlert
    \/ DismissAlert
    \/ ClearOldAlerts
    \/ GetActiveAlerts
    \/ GetAlert
    \/ GetAlertStatistics
    \/ GetAlertsRoute
    \/ DismissAlertRoute
    \/ Tick

AlertSpec == AlertInit /\ [][AlertNext]_vars

(***************************************************************************)
(* What the claims about the alert system speak about.                     *)
(***************************************************************************)
\* the ids of the stored alerts
StoredIds(rows) == {r.id : r \in rows}

\* the step is a dismiss_alert call for an id that no stored alert has
DismissesMissing ==
    /\ reply'.op = "dismiss_alert"
    /\ reply'.alert_id \notin StoredIds(alerts)

\* the step is a DELETE request for an id that no stored alert has
DeletesMissing ==
    /\ reply'.op = "DELETE /alerts"
    /\ reply'.alert_id \notin StoredIds(alerts')

\* C22: dismissing an id that no stored alert has is reported as an error:
\* dismiss_alert raises ValueError and leaves the stored alerts unchanged,
\* and the DELETE route answers 404.
C22_MissingAlertReported ==
    [][/\ DismissesMissing => reply'.raised = Some("ValueError") /\ alerts' = alerts
       /\ DeletesMissing => reply'.status = 404]_vars

\* the ids in a list of alerts
IdsOf(list) == {list[i].id : i \in DOMAIN list}

\* the ids of the alerts that get_active_alerts() returns
ListedIds(rows) == IdsOf(get_active_alerts(rows, None))

\* get_alert reports the alert as dismissed
ReportedDismissed(rows, alert_id) ==
    /\ get_alert(rows, alert_id) # None
    /\ get_alert(rows, alert_id)[1].is_dismissed

\* the ids create_alert has returned so far
GivenOut == 1..sqlite_sequence

\* the step is a dismiss_alert call that found its alert
DismissesStored ==
    /\ reply'.op = "dismiss_alert"
    /\ reply'.value

\* C23: once dismiss_alert has dismissed a created alert, get_alert reports
\* it as dismissed and get_active_alerts does not contain it; an alert that
\* is out of the active list stays out of it in every later step, whatever
\* create_alert, dismiss_alert and clear_old_alerts calls follow.
C23_DismissedStaysOut ==
    [][/\ DismissesStored => /\ ReportedDismissed(alerts', reply'.alert_id)
                             /\ reply'.alert_id \notin ListedIds(alerts')
       /\ alerts' # alerts => ListedIds(alerts') \cap GivenOut \subseteq ListedIds(alerts)]_vars

\* the active list has just been read where one created alert is stored as
\* dismissed, the alert a caller created after the samples has been
\* dismissed and cleared, and five alerts have been created after that
C23_Witness ==
    /\ reply.op = "get_active_alerts"
    /\ reply.severity = None
    /\ reply.value # <<>>
    /\ \E id \in GivenOut : ReportedDismissed(alerts, id)
    /\ \E id \in GivenOut : /\ id \notin StoredIds(alerts)
                            /\ id = Len(SampleSeverities) + 1
                            /\ sqlite_sequence = id + Len(SampleSeverities)
    /\ \A i \in DOMAIN reply.value : \E r \in ActiveRows(alerts) : r.id = reply.value[i].id

\* the severities from the most to the least severe
BySeverityDescending == <<"CRITICAL", "ERROR", "WARNING", "INFO">>

\* the place of a severity in that order
Place(severity) == CHOOSE i \in DOMAIN BySeverityDescending :
                       BySeverityDescending[i] = severity

\* a list of alerts has just been returned
ListReturned == reply.op \in {"get_active_alerts", "GET /alerts"}

\* the severity the returned list was asked for, None for all
Asked == IF reply.op = "get_active_alerts" THEN reply.severity ELSE None

StatisticsReturned == reply.op = "get_alert_statistics"

\* the per-severity counts over the four levels
LevelCounts(by_severity) ==
    [i \in DOMAIN SEVERITY_LEVELS |-> by_severity[SEVERITY_LEVELS[i]]]

\* C25: after any sequence of create_alert, dismiss_alert and
\* clear_old_alerts calls the statistics have total_all_time >= total_active,
\* a count for each of INFO, WARNING, ERROR and CRITICAL, and per-severity
\* counts of the active alerts that sum to total_active.
C25_StatisticsConsistent ==
    StatisticsReturned =>
        /\ reply.value.total_all_time >= reply.value.total_active
        /\ DOMAIN reply.value.by_severity = Levels
        /\ \A s \in Levels : reply.value.by_severity[s] \in Nat
        /\ SumInt(LevelCounts(reply.value.by_severity)) = reply.value.total_active

\* statistics returned after a caller's alert was stored as INFO and alerts
\* were dismissed and cleared: a cleared alert is counted nowhere, a
\* dismissed one in the all-time total only, and one level has no active
\* alert
C25_Witness ==
    /\ StatisticsReturned
    /\ reply.value.total_all_time < sqlite_sequence
    /\ reply.value.total_active < reply.value.total_all_time
    /\ reply.value.total_active > 0
    /\ \E s \in Levels : reply.value.by_severity[s] = 0
    /\ \E r \in alerts : r.id > Len(SampleSeverities) /\ r.severity = "INFO"
    /\ reply.value.by_severity["INFO"] = 2

(***************************************************************************)
(* What the claims about subgrouping, capability and the order of the      *)
(* violations speak about.                                                 *)
(***************************************************************************)
\* an X-bar or R chart call with a positive subgroup_size has returned
SubgroupedReturned ==
    /\ pc = "returned"
    /\ call.op \in {"analyze_xbar", "analyze_r_chart"}
    /\ call.subgroup_size >= 1
    /\ result.status = "ok"

\* the number of measurements that fill whole subgroups
FullLength == (Len(call.data) \div call.subgroup_size) * call.subgroup_size

\* the data with every trailing measurement replaced by v
WithTrailing(v) == [i \in 1..Len(call.data) |-> IF i > FullLength THEN v ELSE call.data[i]]

\* what the same call returns on other data
Rerun(data) ==
    IF call.op = "analyze_xbar"
    THEN analyze_xbar(data, call.subgroup_size, call.usl, call.lsl)
    ELSE analyze_r_chart(data, call.subgroup_size)

\* the fields of a result that describe the chart
Chart(res) ==
    <<res.center_line, res.ucl, res.lcl, res.violations, res.out_of_control_points>>

\* values to put in place of the trailing measurements
OtherValues == Values \cup {95, 100}

\* C26: analyze_xbar and analyze_r_chart plot floor(len(data)/subgroup_size)
\* points, subgroup j being data[j*subgroup_size .. (j+1)*subgroup_size - 1];
\* the trailing len(data) mod subgroup_size measurements are dropped:
\* whatever their values, center_line, ucl, lcl, violations and
\* out_of_control_points are the same.
C26_TrailingDropped ==
    SubgroupedReturned =>
        /\ Len(Subgroups(call.data, call.subgroup_size))
               = Len(call.data) \div call.subgroup_size
        /\ \A j \in 0..(Len(call.data) \div call.subgroup_size - 1) :
              Subgroups(call.data, call.subgroup_size)[j + 1]
                  = [i \in 1..call.subgroup_size |->
                        call.data[j * call.subgroup_size + i]]
        /\ \A v \in OtherValues : Chart(Rerun(WithTrailing(v))) = Chart(result)
        /\ Chart(Rerun(SubSeq(call.data, 1, FullLength))) = Chart(result)

\* an X-bar chart of three subgroups of two with a seventh measurement left
\* over, points out of control
C26_Witness ==
    /\ SubgroupedReturned
    /\ call.op = "analyze_xbar"
    /\ call.subgroup_size = 2
    /\ Len(call.data) = 7
    /\ call.data[7] = 1
    /\ result.out_of_control_points # <<>>
    /\ Chart(Rerun(WithTrailing(0))) = Chart(result)

\* sigma is a positive number
PositiveSigma(data) == IsFinite(Std(data)) /\ IsPositive(Std(data))

\* the product of two finite multiples of the same square root, or of 0
TimesRoot(x, s) ==
    IF x.b = 0 \/ s.b = 0 THEN Zero ELSE Q(x.b * s.b * s.r, x.d * s.d)

\* x and s are finite multiples of the same square root, or x is 0
SameRoot(x, s) == IsFinite(x) /\ x.a = 0 /\ (x.b = 0 \/ x.r = s.r)

\* cp and cpk are the indices of data of mean `mean` and standard deviation
\* `sigma`: cp * 6 sigma = usl - lsl, cpk * 3 sigma = min(usl - mean, mean - lsl)
IndicesOf3Sigma(cp, cpk, mean, sigma) ==
    /\ SameRoot(cp, sigma)
    /\ SameRoot(cpk, sigma)
    /\ Eq(TimesRoot(cp, Mul(sigma, Num(6))), Num(call.usl[1] - call.lsl[1]))
    /\ Eq(TimesRoot(cpk, Mul(sigma, Num(3))),
          Min2(Sub(Num(call.usl[1]), mean), Sub(mean, Num(call.lsl[1]))))

\* the capability indices of the same call on other data
RerunCapability(data) == Rerun(data).process_capability[1]

\* the control limits of a result
Limits(res) == <<res.center_line, res.ucl, res.lcl>>

\* C27: the capability indices of analyze_xbar are those of the mean and the
\* sample standard deviation of the complete data, trailing measurements
\* included, on the data as given and on the data with other trailing
\* values, while center_line, ucl and lcl do not depend on the trailing
\* values.
C27_CapabilityFromRawData ==
    (HasCapability /\ call.subgroup_size >= 1) =>
        /\ PositiveSigma(call.data) =>
               IndicesOf3Sigma(Capability.Cp, Capability.Cpk,
                               MeanInt(call.data), Std(call.data))
        /\ \A v \in OtherValues :
              /\ Limits(Rerun(WithTrailing(v))) = Limits(result)
              /\ PositiveSigma(WithTrailing(v)) =>
                     IndicesOf3Sigma(RerunCapability(WithTrailing(v)).Cp,
                                     RerunCapability(WithTrailing(v)).Cpk,
                                     MeanInt(WithTrailing(v)), Std(WithTrailing(v)))

\* another trailing value gives other Cp and Cpk under the same center_line,
\* ucl and lcl
C27_Witness ==
    /\ HasCapability
    /\ call.subgroup_size = 2
    /\ FullLength < Len(call.data)
    /\ CapabilityFinite
    /\ \E v \in OtherValues :
          /\ Limits(Rerun(WithTrailing(v))) = Limits(result)
          /\ IsFinite(RerunCapability(WithTrailing(v)).Cp)
          /\ IsFinite(RerunCapability(WithTrailing(v)).Cpk)
          /\ ~Eq(RerunCapability(WithTrailing(v)).Cp, Capability.Cp)
          /\ ~Eq(RerunCapability(WithTrailing(v)).Cpk, Capability.Cpk)

\* x and y are the same value: the same number, the same infinity, or both NaN
SameValue(x, y) == x = y /\ (IsNaN(x) \/ Eq(x, y))

Constructs == reply'.op \in {"AlertSystem", "GET /alerts", "DELETE /alerts"}

\* C29: constructing an AlertSystem over a database that already holds
\* alerts, dismissed or not, adds no alert: the sample alerts are inserted
\* into an empty table only.
C29_SamplesOnlyWhenEmpty ==
    [][(Constructs /\ alerts # {}) => StoredIds(alerts') = StoredIds(alerts)]_vars

\* the number of a rule
RuleNumber(rule) ==
    CASE rule = BEYOND_3SIGMA -> 1
      [] rule = TWO_OF_THREE_BEYOND_2SIGMA -> 2
      [] rule = FOUR_OF_FIVE_BEYOND_1SIGMA -> 3
      [] rule = EIGHT_CONSECUTIVE_SAME_SIDE -> 4

\* entry v of the violations list may stand before entry w: an earlier rule,
\* or the same rule at a smaller index
InEngineOrder(v, w) ==
    \/ RuleNumber(v[2]) < RuleNumber(w[2])
    \/ RuleNumber(v[2]) = RuleNumber(w[2]) /\ v[1] < w[1]

\* C30: the violations list is grouped by rule, Rule 1 first and Rule 4
\* last, with strictly increasing indices inside each group, and the X-bar
\* out_of_control_points list is the list of the indices of the violations
\* in that order (it need not be sorted by index).
C30_GroupedByRule ==
    XbarReturned =>
        /\ \A p \in DOMAIN result.violations : \A q \in DOMAIN result.violations :
              p < q => InEngineOrder(result.violations[p], result.violations[q])
        /\ result.out_of_control_points
               = [j \in DOMAIN result.violations |-> result.violations[j][1]]

\* three rules have fired and out_of_control_points is not sorted: an index
\* stands before a smaller one
C30_Witness ==
    /\ XbarReturned
    /\ {RuleNumber(result.violations[j][2]) : j \in DOMAIN result.violations}
           = {1, 2, 3}
    /\ \E p \in DOMAIN result.out_of_control_points :
          /\ p < Len(result.out_of_control_points)
          /\ result.out_of_control_points[p] > result.out_of_control_points[p + 1]
=============================================================================
